---- MODULE Spec2Model ----
(***************************************************************************)
(* A model of the smart-city telemetry simulators and of the streaming     *)
(* validator:                                                              *)
(*   - CityGrid._generate_intersections   (traffic_sensor_simulator.py)    *)
(*   - TrafficSimulator.generate_reading  (traffic_sensor_simulator.py)    *)
(*   - EventHubPublisher.send_batch       (traffic_sensor_simulator.py)    *)
(*   - main / publish_weather_data        (both simulators)                *)
(*   - WeatherSimulator.generate_weather  (weather_simulator.py)           *)
(*   - TrafficDataValidator               (utils/data_validator.py)        *)
(* Every component has a specification of its own (SpecGrid, SpecReading,  *)
(* ...): the components share no mutable state, and the variables of the   *)
(* components a specification does not run stay at their idle values.      *)
(*                                                                         *)
(* Numbers: Python floats are modelled as exact rationals in fixed-point   *)
(* units (per-mille factors, micro-degrees, hundredths of mph, ...); every *)
(* int() is a truncation and every round() a round-half-even of the exact  *)
(* rational.                                                               *)
(***************************************************************************)
EXTENDS Integers, Sequences, FiniteSets, TLC

VARIABLES
    \* CityGrid
    city_center,        \* CityGrid.city_center, in micro-degrees
    grid_size,          \* CityGrid.grid_size
    grid_built,         \* whether CityGrid.__init__ has returned
    intersections       \* CityGrid.intersections

gridVars == <<city_center, grid_size, grid_built, intersections>>

VARIABLES
    \* TrafficSimulator.generate_reading
    intersection,       \* the intersection argument
    timestamp_hour,     \* timestamp.hour of the timestamp argument
    traffic_multiplier, \* what get_traffic_multiplier returned, << >> before
    reading             \* the TrafficReading returned (NoReading before the call)

readingVars == <<intersection, timestamp_hour, traffic_multiplier, reading>>

VARIABLES
    \* WeatherSimulator
    current_condition,  \* WeatherSimulator.current_condition
    condition_duration, \* WeatherSimulator.condition_duration
    weather,            \* the WeatherReading last returned (NoWeather before)
    redrawn,            \* whether the last call took the branch of line 36
    drawn_duration,     \* the value random.randint gave at the last draw
    readings_of_draw    \* the readings returned since the last draw, the
                        \* drawing call's included

weatherVars == <<current_condition, condition_duration, weather, redrawn,
                 drawn_duration, readings_of_draw>>

VARIABLES
    \* EventHubPublisher.send_batch
    readings,           \* the readings argument: the serialized size of each
    batch_capacity,     \* the size limit of a batch create_batch() returns
    event_data_batch,   \* the local event_data_batch: the events added
    next_reading,       \* the position of the for loop in readings
    sent_batches,       \* the batches producer.send_batch has accepted
    pub_pc,             \* "idle", "loop", "returned" or "raised"
    pub_error           \* the exception send_batch ended with, or "none"

publisherVars == <<readings, batch_capacity, event_data_batch, next_reading,
                   sent_batches, pub_pc, pub_error>>

VARIABLES
    \* TrafficDataValidator
    message,            \* the message being validated (NoMessage before)
    schema_result,      \* what _validate_schema returned (NotRun before)
    errors,             \* what validate returned as the message's errors
    stats               \* TrafficDataValidator.stats, the counters

validatorVars == <<message, schema_result, errors, stats>>

VARIABLES
    \* main and publish_weather_data, one entry per producer
    prod_pc,            \* where the producer is
    iteration,          \* the local iteration
    pending_batches,    \* the batches the current send has still to hand over
    batches_sent,       \* how many batches the channel has accepted
    closed,             \* whether the producer client is closed
    exit_cause          \* what ended the try block, "none" while it runs

producerVars == <<prod_pc, iteration, pending_batches, batches_sent, closed,
                  exit_cause>>

vars == <<gridVars, readingVars, weatherVars, publisherVars, validatorVars,
          producerVars>>

(***************************************************************************)
(* CityGrid._generate_intersections                                        *)
(***************************************************************************)

\* The largest grid size the builder is run with.  main uses 10; 102 is the
\* first size with a cell whose row index has three digits and a cell whose
\* column index has three digits.
MaxGridSize == 102

GridSizes == 1..MaxGridSize

\* main's city_center, in micro-degrees (40.7128, -74.0060).
CityCenter == <<40712800, -74006000>>

\* random.choice([2, 3, 4])
LaneChoices == {2, 3, 4}

Districts == {"downtown", "residential", "industrial", "suburban"}

\* f"{n:02d}": at least two digits, zero padded, never truncated.
Format02d(n) == IF n < 10 THEN "0" \o ToString(n) ELSE ToString(n)

\* f"INT-{i:02d}{j:02d}"
IntersectionId(i, j) == "INT-" \o Format02d(i) \o Format02d(j)

\* distance = math.sqrt(i**2 + j**2), compared with 3, 5 and 7: the
\* comparison of the root with k is the comparison of i*i + j*j with k*k.
DistrictOf(i, j) ==
    LET d2 == i * i + j * j
    IN  IF d2 < 9 THEN "downtown"
        ELSE IF d2 < 25 THEN "residential"
        ELSE IF d2 < 49 THEN "industrial"
        ELSE "suburban"

\* round(lat_base + (i - grid_size/2) * 0.01, 6), in micro-degrees.
Coordinate(base, k, n) == base + (2 * k - n) * 5000

\* The fields of the Intersection of cell (i, j), grid size n, that are a
\* function of the cell: the id, the name (the code point of the street
\* letter and the avenue number), the coordinates and the district.
CellTopology(center, i, j, n) ==
    [ intersection_id |-> IntersectionId(i, j),
      name            |-> <<65 + i, j + 1>>,
      latitude        |-> Coordinate(center[1], i, n),
      longitude       |-> Coordinate(center[2], j, n),
      district        |-> DistrictOf(i, j) ]

\* The Intersection built for cell (i, j): its topology and the three random
\* attributes, drawn as ns, ew and cam.
MakeIntersection(center, i, j, n, ns, ew, cam) ==
    CellTopology(center, i, j, n) @@
    [ lanes_north_south |-> ns,
      lanes_east_west   |-> ew,
      has_camera        |-> cam ]

InitGridVars ==
    /\ city_center = CityCenter
    /\ grid_size \in GridSizes
    /\ grid_built = FALSE
    /\ intersections = <<>>

IdleGridVars ==
    /\ city_center = <<0, 0>>
    /\ grid_size = 0
    /\ grid_built = FALSE
    /\ intersections = <<>>

\* The cells in the order the two range() loops visit them: the k-th
\* append (k from 1) is the one of i = (k-1) div n, j = (k-1) mod n.
CellOf(k, n) == <<(k - 1) \div n, (k - 1) % n>>

\* _generate_intersections, called by the constructor: the whole double
\* loop, one append per cell.  The list keeps the topology of each
\* intersection; the lane counts and the camera flag are independent draws
\* that the builder never reads back, and they are drawn where they are
\* read, in InitReading.
GenerateIntersections ==
    /\ ~grid_built
    /\ grid_size > 0
    /\ intersections' =
          [k \in 1..(grid_size * grid_size) |->
              CellTopology(city_center, CellOf(k, grid_size)[1],
                           CellOf(k, grid_size)[2], grid_size)]
    /\ grid_built' = TRUE
    /\ UNCHANGED <<city_center, grid_size, readingVars, weatherVars,
                   publisherVars,
                   validatorVars, producerVars>>

(***************************************************************************)
(* TrafficSimulator.generate_reading                                       *)
(***************************************************************************)

NoIntersection == [intersection_id |-> "none"]
NoReading == [sensor_id |-> "none"]

\* main builds CityGrid(grid_size=10); the readings are generated for cells
\* of that grid, one cell of each district.
MainGridSize == 10
SampleCells == {<<0, 0>>, <<3, 3>>, <<4, 4>>, <<5, 5>>}

\* self.time_of_day_patterns, in insertion order: (start, end, multiplier in
\* tenths).
TimeOfDayPatterns ==
    << [name |-> "night",        start_hour |-> 0,  end_hour |-> 6,  multiplier |-> 2],
       [name |-> "morning_rush", start_hour |-> 6,  end_hour |-> 9,  multiplier |-> 15],
       [name |-> "midday",       start_hour |-> 9,  end_hour |-> 16, multiplier |-> 8],
       [name |-> "evening_rush", start_hour |-> 16, end_hour |-> 19, multiplier |-> 16],
       [name |-> "evening",      start_hour |-> 19, end_hour |-> 24, multiplier |-> 6] >>

\* The draws of random.uniform(lo, hi) the model takes: both ends of the
\* interval.
UniformEnds(lo, hi) == {lo, hi}

\* random.uniform(0.8, 1.2), per mille.
JitterDraws == UniformEnds(800, 1200)

\* The hours the readings are generated at: the first and the last hour of
\* every band.
SampleHours ==
    {TimeOfDayPatterns[b].start_hour : b \in 1..Len(TimeOfDayPatterns)}
    \cup {TimeOfDayPatterns[b].end_hour - 1 : b \in 1..Len(TimeOfDayPatterns)}

\* The bands that match an hour, by position in the dict.  The variant
\* takes the end hour of a band as part of the band.
MatchingBandsInclusive(hour) ==
    {b \in 1..Len(TimeOfDayPatterns) :
        TimeOfDayPatterns[b].start_hour <= hour
        /\ hour <= TimeOfDayPatterns[b].end_hour}
MatchingBands(hour) ==
    {b \in 1..Len(TimeOfDayPatterns) :
        TimeOfDayPatterns[b].start_hour <= hour
        /\ hour < TimeOfDayPatterns[b].end_hour}

\* get_traffic_multiplier, in units of 1/10000: the first matching band's
\* multiplier times the jitter, and 1.0 when no band matches.
GetTrafficMultiplier(hour, jitter) ==
    IF MatchingBands(hour) = {} THEN 10000
    ELSE LET b == CHOOSE x \in MatchingBands(hour) :
                      \A y \in MatchingBands(hour) : x <= y
         IN  TimeOfDayPatterns[b].multiplier * jitter

\* get_weather_impact: the factor of the drawn condition, in tenths.  Every
\* condition has a positive weight, so every factor can be returned.
WeatherConditions ==
    [clear |-> 10, rain |-> 7, heavy_rain |-> 5, snow |-> 4, fog |-> 6]
WeatherImpacts == {WeatherConditions[c] : c \in DOMAIN WeatherConditions}

\* district_multipliers, in tenths.
DistrictMultipliers ==
    [downtown |-> 15, residential |-> 7, industrial |-> 12, suburban |-> 5]

\* random.randint(-5, 5)
CountJitter == -5..5

Max(a, b) == IF a >= b THEN a ELSE b
Min(a, b) == IF a <= b THEN a ELSE b

\* round(num/den, ndigits) of a non-negative rational, as an integer count
\* of the last digit kept: num is already scaled by 10^ndigits.  Ties go to
\* the even neighbour.
RoundHalfEven(num, den) ==
    LET q == num \div den
        r == num % den
    IN  IF 2 * r < den THEN q
        ELSE IF 2 * r > den THEN q + 1
        ELSE IF q % 2 = 0 THEN q ELSE q + 1

\* vehicle_count: int(base_capacity * time_multiplier * district_mult *
\* weather_mult), then the integer jitter, clamped at 0.
VehicleCount(base_capacity, time_multiplier, district_mult, weather_mult, jit) ==
    Max(0, ((base_capacity * time_multiplier * district_mult * weather_mult)
               \div 1000000) + jit)

\* occupancy_rate = min(1.0, vehicle_count / max_capacity), kept exact as a
\* fraction num/den.
OccupancyUncapped(vehicle_count, max_capacity) ==
    [num |-> vehicle_count, den |-> max_capacity]
Occupancy(vehicle_count, max_capacity) ==
    [num |-> Min(max_capacity, vehicle_count), den |-> max_capacity]

\* average_speed = max(5, 35 * (1 - occupancy_rate * 0.7)), rounded to two
\* decimals: in hundredths of mph.
AverageSpeed(occ) ==
    LET num == 3500 * (10 * occ.den - 7 * occ.num)
        den == 10 * occ.den
    IN  IF num < 500 * den THEN 500 ELSE RoundHalfEven(num, den)

\* The Python type of round(max(5, 35 * (1 - occupancy_rate * 0.7)), 2):
\* max returns its first argument, the int 5, unless the second is greater,
\* and round keeps an int an int.
AverageSpeedType(occ) ==
    IF 3500 * (10 * occ.den - 7 * occ.num) <= 500 * (10 * occ.den)
        THEN "int" ELSE "float"

\* vehicle_types: four int(total * uniform) draws (fractions per mille),
\* then the car count replaced by total minus the other three.
VehicleTypesAsDrawn(total, fcar, ftruck, fmoto, fbus) ==
    [ car        |-> (total * fcar) \div 1000,
      truck      |-> (total * ftruck) \div 1000,
      motorcycle |-> (total * fmoto) \div 1000,
      bus        |-> (total * fbus) \div 1000 ]
VehicleTypes(total, fcar, ftruck, fmoto, fbus) ==
    LET drawn == [ car        |-> (total * fcar) \div 1000,
                   truck      |-> (total * ftruck) \div 1000,
                   motorcycle |-> (total * fmoto) \div 1000,
                   bus        |-> (total * fbus) \div 1000 ]
    IN  [drawn EXCEPT !.car =
            total - (drawn.truck + drawn.motorcycle + drawn.bus)]

SignalStates == {"red", "yellow", "green"}

\* generate_reading(intersection, timestamp) with its random draws given as
\* the record d.  average_speed is in hundredths of mph, occupancy_rate in
\* thousandths, wait_time_seconds in tenths of a second; the timestamp is
\* kept as its hour.  number_types holds the Python type of every numeric
\* field: int() and randint give ints, a true division and a product with a
\* float give floats, and the coordinates are floats by (i - grid_size/2).
MakeReading(x, hour, d) ==
    LET base_capacity == (x.lanes_north_south + x.lanes_east_west) * 10
        time_multiplier == GetTrafficMultiplier(hour, d.jitter)
        district_mult == DistrictMultipliers[x.district]
        vehicle_count == VehicleCount(base_capacity, time_multiplier,
                                      district_mult, d.weather_mult, d.jit)
        max_capacity == base_capacity * 2
        occ == Occupancy(vehicle_count, max_capacity)
    IN  [ sensor_id         |-> x.intersection_id \o "-SENSOR-01",
          intersection_id   |-> x.intersection_id,
          timestamp         |-> hour,
          vehicle_count     |-> vehicle_count,
          average_speed     |-> AverageSpeed(occ),
          occupancy_rate    |-> RoundHalfEven(1000 * occ.num, occ.den),
          vehicle_types     |-> VehicleTypes(vehicle_count, d.fcar, d.ftruck,
                                             d.fmoto, d.fbus),
          wait_time_seconds |-> RoundHalfEven(10 * occ.num * d.wait, occ.den),
          queue_length      |-> (occ.num * base_capacity) \div (2 * occ.den),
          signal_state      |-> d.signal,
          latitude          |-> x.latitude,
          longitude         |-> x.longitude,
          district          |-> x.district,
          number_types      |->
              [ vehicle_count     |-> "int",
                average_speed     |-> AverageSpeedType(occ),
                occupancy_rate    |-> "float",
                wait_time_seconds |-> "float",
                queue_length      |-> "int",
                latitude          |-> "float",
                longitude         |-> "float" ] ]

\* The intersections generate_reading is called with: the sample cells with
\* every pair of lane counts.  has_camera is not read by generate_reading;
\* the sampled intersections have none.
InitReadingVars ==
    /\ \E c \in SampleCells, ns \in LaneChoices, ew \in LaneChoices :
          intersection = MakeIntersection(CityCenter, c[1], c[2], MainGridSize,
                                          ns, ew, FALSE)
    /\ timestamp_hour \in SampleHours
    /\ traffic_multiplier = << >>
    /\ reading = NoReading

IdleReadingVars ==
    /\ intersection = NoIntersection
    /\ timestamp_hour = 0
    /\ traffic_multiplier = << >>
    /\ reading = NoReading

\* One call of generate_reading.
GenerateReading ==
    /\ intersection # NoIntersection
    /\ reading = NoReading
    /\ \E jitter \in JitterDraws, weather_mult \in WeatherImpacts,
          jit \in CountJitter,
          fcar \in UniformEnds(750, 850), ftruck \in UniformEnds(50, 120),
          fmoto \in UniformEnds(20, 50), fbus \in UniformEnds(10, 30),
          wait \in UniformEnds(30, 120), signal \in SignalStates :
          reading' = MakeReading(intersection, timestamp_hour,
                        [ jitter |-> jitter, weather_mult |-> weather_mult,
                          jit |-> jit, fcar |-> fcar, ftruck |-> ftruck,
                          fmoto |-> fmoto, fbus |-> fbus, wait |-> wait,
                          signal |-> signal ])
    /\ UNCHANGED <<gridVars, intersection, timestamp_hour, traffic_multiplier,
                   weatherVars, publisherVars, validatorVars, producerVars>>

\* datetime.hour
HoursOfDay == 0..23

\* The draws of random.uniform(0.8, 1.2) a call of get_traffic_multiplier
\* on its own takes, per mille: the ends and three values between them.
MultiplierJitterDraws == {800, 900, 1000, 1100, 1200}

InitMultiplierVars ==
    /\ intersection = NoIntersection
    /\ timestamp_hour \in HoursOfDay
    /\ traffic_multiplier = << >>
    /\ reading = NoReading

\* One call of get_traffic_multiplier(timestamp): the returned value, in
\* units of 1/10000.
CallGetTrafficMultiplier ==
    /\ intersection = NoIntersection
    /\ traffic_multiplier = << >>
    /\ \E jitter \in MultiplierJitterDraws :
          traffic_multiplier' = << GetTrafficMultiplier(timestamp_hour, jitter) >>
    /\ UNCHANGED <<gridVars, intersection, timestamp_hour, reading,
                   weatherVars, publisherVars, validatorVars, producerVars>>

(***************************************************************************)
(* WeatherSimulator.generate_weather                                       *)
(***************************************************************************)

NoWeather == [station_id |-> "none"]

\* The population of random.choices; every weight is positive.
Conditions == {"clear", "cloudy", "rain", "heavy_rain", "snow", "fog"}

\* random.randint(4, 20)
DurationDraws == 4..20

\* The guard of line 36: the sticky condition has run out.
ConditionExpiredEarly(duration) == duration <= 1
ConditionExpired(duration) == duration = 0

InitWeatherVars ==
    /\ current_condition = "clear"
    /\ condition_duration = 0
    /\ weather = NoWeather
    /\ redrawn = FALSE
    /\ drawn_duration = 0
    /\ readings_of_draw = 0

\* The state of a simulator that is constructed and never called.
IdleWeatherVars == InitWeatherVars

\* self.condition_duration -= 1, the statement every call reaches after
\* the if.  The variant leaves the counter as it is.
DecrementSkipped(duration) == duration
Decremented(duration) == duration - 1

\* One call of generate_weather: the draw when the condition has run out,
\* the decrement, and the reading of the current condition.  The measured
\* values of the reading (temperature, humidity, ...) are draws that
\* nothing reads back; the reading keeps the station and the condition.
GenerateWeather ==
    /\ \/ /\ ConditionExpired(condition_duration)
          /\ \E c \in Conditions, d \in DurationDraws :
                /\ current_condition' = c
                /\ drawn_duration' = d
                /\ condition_duration' = Decremented(d)
          /\ redrawn' = TRUE
          /\ readings_of_draw' = 1
       \/ /\ ~ConditionExpired(condition_duration)
          /\ condition_duration' = Decremented(condition_duration)
          /\ redrawn' = FALSE
          /\ readings_of_draw' = readings_of_draw + 1
          /\ UNCHANGED <<current_condition, drawn_duration>>
    /\ weather' = [station_id |-> "WEATHER-CENTRAL-01",
                   condition  |-> current_condition']
    /\ UNCHANGED <<gridVars, readingVars, publisherVars, validatorVars,
                   producerVars>>

(***************************************************************************)
(* EventHubPublisher.send_batch                                            *)
(***************************************************************************)

\* The size limit of a batch, in units of one smallest reading.
BatchCapacity == 3

\* The serialized sizes a reading may have; the largest does not fit in an
\* empty batch.
ItemSizes == 1..(BatchCapacity + 1)

\* The longest list of readings, and the length of the list of equal
\* smallest readings.
MaxReadings == 4
ScenarioLength == 10

ScenarioReadings == [k \in 1..ScenarioLength |-> 1]

ReadingLists ==
    UNION {[1..n -> ItemSizes] : n \in 0..MaxReadings} \cup {ScenarioReadings}

\* EventData(json.dumps(asdict(reading))) of the k-th reading: its position
\* stands for its content.
EventDataOf(k) == [seq |-> k, size |-> readings[k]]

RECURSIVE BatchSize(_)
BatchSize(batch) ==
    IF batch = <<>> THEN 0 ELSE Head(batch).size + BatchSize(Tail(batch))

\* Whether EventDataBatch.add accepts the event: it raises ValueError when
\* the event would take the batch past its size limit.
FitsStrictly(batch, event, capacity) ==
    BatchSize(batch) + event.size < capacity
Fits(batch, event, capacity) ==
    BatchSize(batch) + event.size <= capacity

\* event_data_batch.add(event_data) on the fresh batch of line 220: the
\* ValueError of an event that does not fit in an empty batch is raised
\* inside the except clause and leaves send_batch.
AddToFreshSwallowed(event, capacity) ==
    [ raised |-> FALSE,
      batch  |-> IF Fits(<<>>, event, capacity) THEN <<event>> ELSE <<>> ]
AddToFresh(event, capacity) ==
    IF Fits(<<>>, event, capacity)
        THEN [raised |-> FALSE, batch |-> <<event>>]
        ELSE [raised |-> TRUE,  batch |-> <<>>]

InitPublisherVars ==
    /\ readings \in ReadingLists
    /\ batch_capacity = BatchCapacity
    /\ event_data_batch = <<>>
    /\ next_reading = 1
    /\ sent_batches = <<>>
    /\ pub_pc = "loop"
    /\ pub_error = "none"

IdlePublisherVars ==
    /\ readings = <<>>
    /\ batch_capacity = 0
    /\ event_data_batch = <<>>
    /\ next_reading = 1
    /\ sent_batches = <<>>
    /\ pub_pc = "idle"
    /\ pub_error = "none"

\* Lines 213-216: the next reading fits in the current batch.
AddReading ==
    /\ pub_pc = "loop"
    /\ next_reading <= Len(readings)
    /\ Fits(event_data_batch, EventDataOf(next_reading), batch_capacity)
    /\ event_data_batch' = Append(event_data_batch, EventDataOf(next_reading))
    /\ next_reading' = next_reading + 1
    /\ UNCHANGED <<readings, batch_capacity, sent_batches, pub_pc, pub_error>>
    /\ UNCHANGED <<gridVars, readingVars, weatherVars, validatorVars,
                   producerVars>>

\* Lines 217-221: add raised ValueError; the current batch is sent, a new
\* one is created and the reading is added to it.
FlushAndAdd ==
    /\ pub_pc = "loop"
    /\ next_reading <= Len(readings)
    /\ ~Fits(event_data_batch, EventDataOf(next_reading), batch_capacity)
    /\ sent_batches' = Append(sent_batches, event_data_batch)
    /\ LET added == AddToFresh(EventDataOf(next_reading), batch_capacity)
       IN  /\ event_data_batch' = added.batch
           /\ IF added.raised
                 THEN /\ pub_pc' = "raised"
                      /\ pub_error' = "ValueError"
                      /\ UNCHANGED next_reading
                 ELSE /\ next_reading' = next_reading + 1
                      /\ UNCHANGED <<pub_pc, pub_error>>
    /\ UNCHANGED <<readings, batch_capacity>>
    /\ UNCHANGED <<gridVars, readingVars, weatherVars, validatorVars,
                   producerVars>>

\* Lines 223-224: after the loop, the batch is sent if it holds an event.
FinalFlush ==
    /\ pub_pc = "loop"
    /\ next_reading > Len(readings)
    /\ IF Len(event_data_batch) > 0
          THEN sent_batches' = Append(sent_batches, event_data_batch)
          ELSE UNCHANGED sent_batches
    /\ event_data_batch' = <<>>
    /\ pub_pc' = "returned"
    /\ UNCHANGED <<readings, batch_capacity, next_reading, pub_error>>
    /\ UNCHANGED <<gridVars, readingVars, weatherVars, validatorVars,
                   producerVars>>

\* producer.send_batch raises (lines 219 and 224): the channel refuses the
\* batch, and the exception leaves send_batch.
SendFails ==
    /\ pub_pc = "loop"
    /\ \/ /\ next_reading <= Len(readings)
          /\ ~Fits(event_data_batch, EventDataOf(next_reading), batch_capacity)
       \/ /\ next_reading > Len(readings)
          /\ Len(event_data_batch) > 0
    /\ pub_pc' = "raised"
    /\ pub_error' = "SendError"
    /\ UNCHANGED <<readings, batch_capacity, event_data_batch, next_reading,
                   sent_batches>>
    /\ UNCHANGED <<gridVars, readingVars, weatherVars, validatorVars,
                   producerVars>>

(***************************************************************************)
(* TrafficDataValidator                                                    *)
(***************************************************************************)

\* REQUIRED_FIELDS, in declaration order, with the expected Python type.
RequiredFields ==
    << [name |-> "sensor_id",         type |-> "str"],
       [name |-> "intersection_id",   type |-> "str"],
       [name |-> "timestamp",         type |-> "str"],
       [name |-> "vehicle_count",     type |-> "int"],
       [name |-> "average_speed",     type |-> "float"],
       [name |-> "occupancy_rate",    type |-> "float"],
       [name |-> "vehicle_types",     type |-> "dict"],
       [name |-> "wait_time_seconds", type |-> "float"],
       [name |-> "queue_length",      type |-> "int"],
       [name |-> "signal_state",      type |-> "str"],
       [name |-> "latitude",          type |-> "float"],
       [name |-> "longitude",         type |-> "float"],
       [name |-> "district",          type |-> "str"] >>

FieldNames == {RequiredFields[k].name : k \in 1..Len(RequiredFields)}

\* VALUE_RANGES, in millionths.
ValueRanges ==
    [ vehicle_count     |-> <<0, 1000 * 1000000>>,
      average_speed     |-> <<0, 100 * 1000000>>,
      occupancy_rate    |-> <<0, 1000000>>,
      wait_time_seconds |-> <<0, 600 * 1000000>>,
      queue_length      |-> <<0, 500 * 1000000>>,
      latitude          |-> <<-90 * 1000000, 90 * 1000000>>,
      longitude         |-> <<-180 * 1000000, 180 * 1000000>> ]

\* VALID_ENUMS
ValidEnums ==
    [ signal_state |-> {"red", "yellow", "green"},
      district     |-> {"downtown", "residential", "industrial", "suburban"} ]

\* A decoded JSON value: its Python type, its value in millionths when it
\* is a number and its text when it is a string.  Absent marks a key the
\* message does not have, NoneVal the JSON null.
Absent == [type |-> "absent", num |-> 0, text |-> ""]
NoneVal == [type |-> "NoneType", num |-> 0, text |-> ""]
StrVal(t) == [type |-> "str", num |-> 0, text |-> t]
IntVal(n) == [type |-> "int", num |-> 1000000 * n, text |-> ""]
FloatVal(thousandths) ==
    [type |-> "float", num |-> 1000 * thousandths, text |-> ""]
NumberVal(type, millionths) == [type |-> type, num |-> millionths, text |-> ""]
BoolVal(b) == [type |-> "bool", num |-> IF b THEN 1000000 ELSE 0, text |-> ""]
DictVal == [type |-> "dict", num |-> 0, text |-> ""]

\* isinstance(value, expected) for the types of REQUIRED_FIELDS: bool is a
\* subclass of int, and an int is no float.
IsInstance(value, expected) ==
    \/ value.type = expected
    \/ value.type = "bool" /\ expected = "int"

\* The errors the loop body of _validate_schema appends for one field: at
\* most one, the first of missing, null and wrong type.
FieldErrorsNoTypeCheck(msg, field) ==
    IF msg[field.name] = Absent
        THEN << [kind |-> "Missing field", field |-> field.name] >>
    ELSE IF msg[field.name] = NoneVal
        THEN << [kind |-> "Null field", field |-> field.name] >>
    ELSE << >>
FieldErrors(msg, field) ==
    IF msg[field.name] = Absent
        THEN << [kind |-> "Missing field", field |-> field.name] >>
    ELSE IF msg[field.name] = NoneVal
        THEN << [kind |-> "Null field", field |-> field.name] >>
    ELSE IF ~IsInstance(msg[field.name], field.type)
        THEN << [kind |-> "Invalid type", field |-> field.name] >>
    ELSE << >>

\* The loop of _validate_schema from the k-th field on.
RECURSIVE SchemaErrorsFrom(_, _)
SchemaErrorsFrom(msg, k) ==
    IF k > Len(RequiredFields) THEN << >>
    ELSE FieldErrors(msg, RequiredFields[k]) \o SchemaErrorsFrom(msg, k + 1)

\* The loop, left at the first field that fails.
RECURSIVE SchemaErrorsUntilFirst(_, _)
SchemaErrorsUntilFirst(msg, k) ==
    IF k > Len(RequiredFields) THEN << >>
    ELSE IF FieldErrors(msg, RequiredFields[k]) # << >>
        THEN FieldErrors(msg, RequiredFields[k])
    ELSE SchemaErrorsUntilFirst(msg, k + 1)

\* _validate_schema(message)
ValidateSchemaStopsAtFirst(msg) == SchemaErrorsUntilFirst(msg, 1)
ValidateSchema(msg) == SchemaErrorsFrom(msg, 1)

IsNumber(value) == value.type \in {"int", "float", "bool"}

\* The range phase: one value error for every bounded field that holds a
\* number outside its closed interval.
RECURSIVE RangeErrorsFrom(_, _)
RangeErrorsFrom(msg, k) ==
    IF k > Len(RequiredFields) THEN << >>
    ELSE LET f == RequiredFields[k].name
         IN  (IF /\ f \in DOMAIN ValueRanges
                 /\ IsNumber(msg[f])
                 /\ (msg[f].num < ValueRanges[f][1] \/ msg[f].num > ValueRanges[f][2])
                 THEN << [kind |-> "Out of range", field |-> f] >>
                 ELSE << >>)
             \o RangeErrorsFrom(msg, k + 1)

ValidateRanges(msg) == RangeErrorsFrom(msg, 1)

\* The enum phase: one value error for every enumerated field that is
\* present, not null and not one of the allowed literals.
RECURSIVE EnumErrorsFrom(_, _)
EnumErrorsFrom(msg, k) ==
    IF k > Len(RequiredFields) THEN << >>
    ELSE LET f == RequiredFields[k].name
         IN  (IF /\ f \in DOMAIN ValidEnums
                 /\ msg[f] # Absent
                 /\ msg[f] # NoneVal
                 /\ ~(msg[f].type = "str" /\ msg[f].text \in ValidEnums[f])
                 THEN << [kind |-> "Invalid value", field |-> f] >>
                 ELSE << >>)
             \o EnumErrorsFrom(msg, k + 1)

ValidateEnums(msg) == EnumErrorsFrom(msg, 1)

\* The counters after validate(message): total always, valid or invalid by
\* the errors, and the category counters once per violation.
UpdatedStats(st, schema_errs, value_errs) ==
    [ total_messages   |-> st.total_messages + 1,
      valid_messages   |-> st.valid_messages
                             + (IF schema_errs \o value_errs = << >> THEN 1 ELSE 0),
      invalid_messages |-> st.invalid_messages
                             + (IF schema_errs \o value_errs = << >> THEN 0 ELSE 1),
      schema_errors    |-> st.schema_errors + Len(schema_errs),
      value_errors     |-> st.value_errors + Len(value_errs) ]

\* A message every phase accepts.
ValidMessage ==
    [ sensor_id         |-> StrVal("INT-0000-SENSOR-01"),
      intersection_id   |-> StrVal("INT-0000"),
      timestamp         |-> StrVal("2024-01-01T08:00:00"),
      vehicle_count     |-> IntVal(42),
      average_speed     |-> FloatVal(25500),
      occupancy_rate    |-> FloatVal(500),
      vehicle_types     |-> DictVal,
      wait_time_seconds |-> FloatVal(30000),
      queue_length      |-> IntVal(10),
      signal_state      |-> StrVal("green"),
      latitude          |-> FloatVal(40712),
      longitude         |-> FloatVal(-74006),
      district          |-> StrVal("downtown") ]

\* The values a field of a message is replaced by.
ValuePool ==
    { Absent, NoneVal, StrVal("green"), StrVal("blue"), IntVal(5), IntVal(1001),
      FloatVal(500), FloatVal(1500), FloatVal(-200000), BoolVal(TRUE), DictVal }

\* The most fields of ValidMessage a schema-phase message replaces, and the
\* most messages the validator is fed.
MaxDeviations == 2
MaxMessages == 2

\* ValidMessage with the fields of fs replaced by the values d gives them.
Deviating(fs, d) ==
    [f \in FieldNames |-> IF f \in fs THEN d[f] ELSE ValidMessage[f]]

\* The sets of at most n fields.
FieldSets(n) == {fs \in SUBSET FieldNames : Cardinality(fs) <= n}

\* The messages the validator is fed: ValidMessage with at most one field
\* replaced.
StreamMessages ==
    UNION {{Deviating(fs, d) : d \in [fs -> ValuePool]} : fs \in FieldSets(1)}

NoMessage == [sensor_id |-> Absent]
NotRun == << [kind |-> "not run", field |-> "none"] >>

ZeroStats ==
    [ total_messages |-> 0, valid_messages |-> 0, invalid_messages |-> 0,
      schema_errors |-> 0, value_errors |-> 0 ]

IdleValidatorVars ==
    /\ message = NoMessage
    /\ schema_result = NotRun
    /\ errors = NotRun
    /\ stats = ZeroStats

\* The messages of the schema phase: ValidMessage with at most
\* MaxDeviations fields replaced.
InitSchemaVars ==
    /\ \E fs \in FieldSets(MaxDeviations) :
          \E d \in [fs -> ValuePool] : message = Deviating(fs, d)
    /\ schema_result = NotRun
    /\ errors = NotRun
    /\ stats = ZeroStats

\* One call of _validate_schema on the message.
RunValidateSchema ==
    /\ message # NoMessage
    /\ schema_result = NotRun
    /\ schema_result' = ValidateSchema(message)
    /\ UNCHANGED <<message, errors, stats>>
    /\ UNCHANGED <<gridVars, readingVars, weatherVars, publisherVars,
                   producerVars>>

\* One call of validate on the next message of the channel: the three
\* phases in order, then the counters.
Validate ==
    /\ stats.total_messages < MaxMessages
    /\ \E m \in StreamMessages :
          LET schema_errs == ValidateSchema(m)
              value_errs  == ValidateRanges(m) \o ValidateEnums(m)
          IN  /\ message' = m
              /\ schema_result' = schema_errs
              /\ errors' = schema_errs \o value_errs
              /\ stats' = UpdatedStats(stats, schema_errs, value_errs)
    /\ UNCHANGED <<gridVars, readingVars, weatherVars, publisherVars,
                   producerVars>>

(***************************************************************************)
(* From generate_reading to the validator                                  *)
(***************************************************************************)

\* The type json.loads gives a number json.dumps wrote.  dumps writes a
\* float by repr, always with a fraction or an exponent (35.0, not 35), and
\* loads reads such a literal as a float and a plain digit string as an int:
\* the type survives the wire.  The variant writes the shortest literal, so
\* that a whole float comes back as an int.
JsonDecodedTypeShortest(type, millionths) ==
    IF type = "float" /\ millionths % 1000000 = 0 THEN "int" ELSE type
JsonDecodedType(type, millionths) ==
    IF type = "float" THEN "float" ELSE "int"

JsonNumber(type, millionths) ==
    NumberVal(JsonDecodedType(type, millionths), millionths)

\* timestamp.isoformat() of a timestamp at the given hour.
IsoFormat(hour) == "2024-01-01T" \o Format02d(hour) \o ":00:00"

\* json.dumps(asdict(reading)) as the validator decodes it: the 13 fields
\* of TrafficReading, every number in millionths.
Serialize(r) ==
    [ sensor_id         |-> StrVal(r.sensor_id),
      intersection_id   |-> StrVal(r.intersection_id),
      timestamp         |-> StrVal(IsoFormat(r.timestamp)),
      vehicle_count     |-> JsonNumber(r.number_types.vehicle_count,
                                       1000000 * r.vehicle_count),
      average_speed     |-> JsonNumber(r.number_types.average_speed,
                                       10000 * r.average_speed),
      occupancy_rate    |-> JsonNumber(r.number_types.occupancy_rate,
                                       1000 * r.occupancy_rate),
      vehicle_types     |-> DictVal,
      wait_time_seconds |-> JsonNumber(r.number_types.wait_time_seconds,
                                       100000 * r.wait_time_seconds),
      queue_length      |-> JsonNumber(r.number_types.queue_length,
                                       1000000 * r.queue_length),
      signal_state      |-> StrVal(r.signal_state),
      latitude          |-> JsonNumber(r.number_types.latitude, r.latitude),
      longitude         |-> JsonNumber(r.number_types.longitude, r.longitude),
      district          |-> StrVal(r.district) ]

\* A city center next to the 180th meridian (-16.85, 179.995), in
\* micro-degrees.
AntimeridianCenter == <<-16850000, 179995000>>

\* The grids the readings are carried to the validator for: main's grid, the
\* grid of size 2 around (0, 0), and a grid of size 4 at the meridian.
GridScenarios ==
    { [city_center |-> CityCenter, grid_size |-> MainGridSize],
      [city_center |-> <<0, 0>>, grid_size |-> 2],
      [city_center |-> AntimeridianCenter, grid_size |-> 4] }

\* The cells of a grid of size n the readings are generated for: the sample
\* cells that lie in the grid, and its last cell.
ScenarioCells(n) ==
    {c \in SampleCells : c[1] < n /\ c[2] < n} \cup {<<n - 1, n - 1>>}

\* The hours of current_time: the first hour of the band of the lowest and
\* of the band of the highest multiplier.
ScenarioHours ==
    {TimeOfDayPatterns[1].start_hour, TimeOfDayPatterns[4].start_hour}

InitScenarioGridVars ==
    /\ \E g \in GridScenarios :
          city_center = g.city_center /\ grid_size = g.grid_size
    /\ grid_built = FALSE
    /\ intersections = <<>>

\* main's loop over city_grid.intersections reaching one intersection at
\* current_time; the lane counts of the intersection are drawn here.
SelectIntersection ==
    /\ grid_built
    /\ intersection = NoIntersection
    /\ \E k \in 1..Len(intersections), ns \in LaneChoices, ew \in LaneChoices :
          /\ CellOf(k, grid_size) \in ScenarioCells(grid_size)
          /\ intersection' = intersections[k] @@
                                [ lanes_north_south |-> ns,
                                  lanes_east_west   |-> ew,
                                  has_camera        |-> FALSE ]
    /\ timestamp_hour' \in ScenarioHours
    /\ UNCHANGED <<gridVars, traffic_multiplier, reading, weatherVars,
                   publisherVars, validatorVars, producerVars>>

\* The reading serialized by send_batch and decoded by the validator, which
\* runs _validate_schema on it.
DeliverReading ==
    /\ reading # NoReading
    /\ message = NoMessage
    /\ message' = Serialize(reading)
    /\ schema_result' = ValidateSchema(Serialize(reading))
    /\ UNCHANGED <<errors, stats>>
    /\ UNCHANGED <<gridVars, readingVars, weatherVars, publisherVars,
                   producerVars>>

(***************************************************************************)
(* main and publish_weather_data                                           *)
(***************************************************************************)

Producers == {"traffic", "weather"}

\* The most iterations of a producer loop, and the most batches one
\* send_batch of the traffic producer hands to the channel.
MaxIterations == 2
MaxBatchesPerTick == 2

\* How many batches one tick hands to the channel: one event for the
\* weather producer, the batches of EventHubPublisher.send_batch for the
\* traffic producer.
BatchesOfTick(p) ==
    IF p = "weather" THEN {1} ELSE 1..MaxBatchesPerTick

\* Whether the client is closed once the try statement is left: the finally
\* clause runs whatever ended the try block.
ClosedByExceptClauseOnly(cause) == cause = "KeyboardInterrupt"
ClosedOnLeaving(cause) == TRUE

InLoop(p) == prod_pc[p] \in {"generate", "send", "sleep"}

InitProducerVars ==
    /\ prod_pc = [p \in Producers |-> "start"]
    /\ iteration = [p \in Producers |-> 0]
    /\ pending_batches = [p \in Producers |-> 0]
    /\ batches_sent = [p \in Producers |-> 0]
    /\ closed = [p \in Producers |-> FALSE]
    /\ exit_cause = [p \in Producers |-> "none"]

IdleProducerVars ==
    /\ prod_pc = [p \in Producers |-> "idle"]
    /\ iteration = [p \in Producers |-> 0]
    /\ pending_batches = [p \in Producers |-> 0]
    /\ batches_sent = [p \in Producers |-> 0]
    /\ closed = [p \in Producers |-> FALSE]
    /\ exit_cause = [p \in Producers |-> "none"]

OtherVarsOfProducers ==
    <<gridVars, readingVars, weatherVars, publisherVars, validatorVars>>

\* The client is created and the banner printed; the try block is entered.
EnterTry(p) ==
    /\ prod_pc[p] = "start"
    /\ prod_pc' = [prod_pc EXCEPT ![p] = "generate"]
    /\ UNCHANGED <<iteration, pending_batches, batches_sent, closed, exit_cause>>
    /\ UNCHANGED OtherVarsOfProducers

\* An interrupt between the creation of the client and the try statement:
\* no handler is in place, the function is left with the client open.
InterruptBeforeTry(p) ==
    /\ prod_pc[p] = "start"
    /\ prod_pc' = [prod_pc EXCEPT ![p] = "exited"]
    /\ exit_cause' = [exit_cause EXCEPT ![p] = "InterruptBeforeTry"]
    /\ UNCHANGED <<iteration, pending_batches, batches_sent, closed>>
    /\ UNCHANGED OtherVarsOfProducers

\* The head of an iteration: the counter, and the readings (or the weather
\* reading) of the tick.
Generate(p) ==
    /\ prod_pc[p] = "generate"
    /\ iteration[p] < MaxIterations
    /\ iteration' = [iteration EXCEPT ![p] = @ + 1]
    /\ \E n \in BatchesOfTick(p) :
          pending_batches' = [pending_batches EXCEPT ![p] = n]
    /\ prod_pc' = [prod_pc EXCEPT ![p] = "send"]
    /\ UNCHANGED <<batches_sent, closed, exit_cause>>
    /\ UNCHANGED OtherVarsOfProducers

\* One blocking producer.send_batch that the channel accepts; after the last
\* one of the tick the summary is printed and the sleep begins.
SendOneBatch(p) ==
    /\ prod_pc[p] = "send"
    /\ pending_batches[p] > 0
    /\ batches_sent' = [batches_sent EXCEPT ![p] = @ + 1]
    /\ pending_batches' = [pending_batches EXCEPT ![p] = @ - 1]
    /\ prod_pc' = [prod_pc EXCEPT ![p] =
                      IF pending_batches[p] = 1 THEN "sleep" ELSE "send"]
    /\ UNCHANGED <<iteration, closed, exit_cause>>
    /\ UNCHANGED OtherVarsOfProducers

\* producer.send_batch raises: the exception is no KeyboardInterrupt, so it
\* passes the except clause and reaches the finally clause.
SendFailure(p) ==
    /\ prod_pc[p] = "send"
    /\ pending_batches[p] > 0
    /\ prod_pc' = [prod_pc EXCEPT ![p] = "finally"]
    /\ exit_cause' = [exit_cause EXCEPT ![p] = "SendError"]
    /\ UNCHANGED <<iteration, pending_batches, batches_sent, closed>>
    /\ UNCHANGED OtherVarsOfProducers

\* time.sleep returns and the loop starts over.
Sleep(p) ==
    /\ prod_pc[p] = "sleep"
    /\ prod_pc' = [prod_pc EXCEPT ![p] = "generate"]
    /\ UNCHANGED <<iteration, pending_batches, batches_sent, closed, exit_cause>>
    /\ UNCHANGED OtherVarsOfProducers

\* KeyboardInterrupt inside the try block, wherever the iteration is: during
\* the generation, during a blocking send (the batch in flight is not
\* accepted) or during the sleep.
Interrupt(p) ==
    /\ InLoop(p)
    /\ prod_pc' = [prod_pc EXCEPT ![p] = "except"]
    /\ exit_cause' = [exit_cause EXCEPT ![p] = "KeyboardInterrupt"]
    /\ UNCHANGED <<iteration, pending_batches, batches_sent, closed>>
    /\ UNCHANGED OtherVarsOfProducers

\* The except KeyboardInterrupt clause: a message is printed.
ExceptClause(p) ==
    /\ prod_pc[p] = "except"
    /\ prod_pc' = [prod_pc EXCEPT ![p] = "finally"]
    /\ UNCHANGED <<iteration, pending_batches, batches_sent, closed, exit_cause>>
    /\ UNCHANGED OtherVarsOfProducers

\* The finally clause: the client is closed, and the function is left (by
\* return after an interrupt, by the exception after a send failure).
FinallyClause(p) ==
    /\ prod_pc[p] = "finally"
    /\ closed' = [closed EXCEPT ![p] = ClosedOnLeaving(exit_cause[p])]
    /\ prod_pc' = [prod_pc EXCEPT ![p] = "exited"]
    /\ UNCHANGED <<iteration, pending_batches, batches_sent, exit_cause>>
    /\ UNCHANGED OtherVarsOfProducers

GridDone == grid_built

InitGrid ==
    /\ InitGridVars /\ IdleReadingVars /\ IdleWeatherVars
    /\ IdlePublisherVars /\ IdleValidatorVars /\ IdleProducerVars

NextGrid == GenerateIntersections

SpecGrid == InitGrid /\ [][NextGrid]_vars

InitReading ==
    /\ IdleGridVars /\ InitReadingVars /\ IdleWeatherVars
    /\ IdlePublisherVars /\ IdleValidatorVars /\ IdleProducerVars

NextReading == GenerateReading

SpecReading == InitReading /\ [][NextReading]_vars

\* C1: the four vehicle-type counts of every reading sum to its
\* vehicle_count.
C1_TypesSumToCount ==
    reading # NoReading =>
        reading.vehicle_types.car + reading.vehicle_types.truck
            + reading.vehicle_types.motorcycle + reading.vehicle_types.bus
        = reading.vehicle_count

\* C2: occupancy_rate lies in [0, 1] (thousandths) and average_speed in
\* [5, 35] (hundredths of mph).
C2_OccupancyAndSpeedBounds ==
    reading # NoReading =>
        /\ 0 <= reading.occupancy_rate /\ reading.occupancy_rate <= 1000
        /\ 500 <= reading.average_speed /\ reading.average_speed <= 3500

\* A reading with many vehicles of every type.
C1_Witness ==
    /\ reading # NoReading
    /\ reading.vehicle_count >= 100
    /\ reading.vehicle_types.truck > 0
    /\ reading.vehicle_types.motorcycle > 0
    /\ reading.vehicle_types.bus > 0

\* A reading of an intersection with more vehicles than twice its base
\* capacity: the occupancy is capped.
C2_Witness ==
    /\ reading # NoReading
    /\ reading.vehicle_count >
          20 * (intersection.lanes_north_south + intersection.lanes_east_west)
    /\ reading.occupancy_rate = 1000
    /\ reading.average_speed = 1050

InitWeather ==
    /\ IdleGridVars /\ IdleReadingVars /\ InitWeatherVars
    /\ IdlePublisherVars /\ IdleValidatorVars /\ IdleProducerVars

NextWeather == GenerateWeather

SpecWeather == InitWeather /\ [][NextWeather]_vars

\* C5: current_condition is reassigned only in a call that starts with
\* condition_duration = 0, and every such call draws the new duration from
\* 4..20 (the counter it leaves is the draw less the decrement).
C5_RedrawOnlyAtZero ==
    [][ /\ (redrawn' <=> condition_duration = 0)
        /\ (current_condition' # current_condition => condition_duration = 0)
        /\ (condition_duration = 0 =>
               /\ drawn_duration' \in 4..20
               /\ condition_duration' = drawn_duration' - 1)
        /\ (condition_duration # 0 => drawn_duration' = drawn_duration)
      ]_vars

\* A call that starts at zero, changes the condition and draws 20.
C5_Witness ==
    /\ redrawn
    /\ current_condition = "snow"
    /\ drawn_duration = 20
    /\ condition_duration = 19

\* C13: from (clear, 0) every call of generate_weather leaves the counter
\* one below the value it had after the draw, if any; the counter is never
\* negative; the first call draws; every reading carries the condition of
\* the last draw; and a draw of duration d is followed by exactly d
\* readings, the drawing call's included, before the next draw.
C13_DrawnDurationIsHonoured ==
    /\ [](condition_duration >= 0)
    /\ [](weather # NoWeather =>
            /\ weather.condition = current_condition
            /\ readings_of_draw >= 1
            /\ readings_of_draw <= drawn_duration
            /\ readings_of_draw + condition_duration = drawn_duration)
    /\ [][ /\ condition_duration' =
                 (IF redrawn' THEN drawn_duration' ELSE condition_duration) - 1
           /\ (weather = NoWeather => redrawn')
           /\ (~redrawn' => current_condition' = current_condition)
           /\ ((redrawn' /\ weather # NoWeather) =>
                  readings_of_draw = drawn_duration)
           /\ ((~redrawn') => readings_of_draw < drawn_duration)
         ]_vars

\* A draw of 4 has been followed by its fourth reading: the counter is back
\* at zero and the next call draws.
C13_Witness ==
    /\ weather # NoWeather
    /\ drawn_duration = 4
    /\ readings_of_draw = 4
    /\ condition_duration = 0
    /\ ~redrawn

InitPublisher ==
    /\ IdleGridVars /\ IdleReadingVars /\ IdleWeatherVars
    /\ InitPublisherVars /\ IdleValidatorVars /\ IdleProducerVars

NextPublisher == AddReading \/ FlushAndAdd \/ FinalFlush \/ SendFails

SpecPublisher == InitPublisher /\ [][NextPublisher]_vars

RECURSIVE Flatten(_)
Flatten(batches) ==
    IF batches = <<>> THEN <<>> ELSE Head(batches) \o Flatten(Tail(batches))

AllFit == \A k \in 1..Len(readings) : readings[k] <= batch_capacity

\* The events of the first n readings, in order.
EventsUpTo(n) == [k \in 1..n |-> EventDataOf(k)]

\* C6: when every reading fits in an empty batch, the sent batches followed
\* by the batch being filled are the readings handled so far, in order;
\* every sent batch is within capacity, none is empty, and a batch was sent
\* only when the reading after it did not fit in it; at the return every
\* reading is sent.  Equal readings, three to a batch, go out in full
\* batches and one last batch of the rest.
C6_BatchesConcatenateToInput ==
    AllFit =>
        /\ Flatten(sent_batches) \o event_data_batch
              = EventsUpTo(next_reading - 1)
        /\ \A b \in 1..Len(sent_batches) :
              /\ sent_batches[b] # <<>>
              /\ BatchSize(sent_batches[b]) <= batch_capacity
        /\ \A b \in 1..Len(sent_batches) :
              LET last == sent_batches[b][Len(sent_batches[b])].seq
              IN  last < Len(readings) =>
                      BatchSize(sent_batches[b]) + readings[last + 1]
                          > batch_capacity
        /\ pub_pc # "raised" \/ pub_error = "SendError"
        /\ pub_pc = "returned" =>
              /\ Flatten(sent_batches) = EventsUpTo(Len(readings))
              /\ (\A k \in 1..Len(readings) : readings[k] = 1) =>
                    \A b \in 1..Len(sent_batches) :
                        Len(sent_batches[b]) =
                            IF b < Len(sent_batches) THEN batch_capacity
                            ELSE ((Len(readings) - 1) % batch_capacity) + 1

\* Ten equal readings, three to a batch: batches of 3, 3, 3 and 1.
C6_Witness ==
    /\ pub_pc = "returned"
    /\ readings = [k \in 1..10 |-> 1]
    /\ batch_capacity = 3
    /\ [b \in 1..Len(sent_batches) |-> Len(sent_batches[b])] = <<3, 3, 3, 1>>

FirstOversized ==
    CHOOSE k \in 1..Len(readings) :
        /\ readings[k] > batch_capacity
        /\ \A m \in 1..(k - 1) : readings[m] <= batch_capacity

\* C7: with a reading that does not fit in an empty batch, send_batch never
\* returns normally; the events sent are never more than the readings
\* before the first such reading, and once the loop has reached it the call
\* has ended with the ValueError, with that reading and every later one
\* unsent.
C7_OversizedIsFatal ==
    ~AllFit =>
        /\ pub_pc # "returned"
        /\ next_reading <= FirstOversized
        /\ \A b \in 1..Len(sent_batches) :
              \A e \in 1..Len(sent_batches[b]) :
                  sent_batches[b][e].seq < FirstOversized
        /\ (pub_pc = "raised" /\ pub_error = "ValueError") =>
              /\ next_reading = FirstOversized
              /\ Flatten(sent_batches) = EventsUpTo(FirstOversized - 1)

\* An oversized reading in the middle: the call has ended with ValueError,
\* the readings before it are sent and the one after it is not.
C7_Witness ==
    /\ ~AllFit
    /\ pub_pc = "raised"
    /\ pub_error = "ValueError"
    /\ FirstOversized = 3
    /\ Len(readings) = 4
    /\ Len(Flatten(sent_batches)) = 2

\* C14: every batch handed to producer.send_batch holds at least one
\* event, for every list of readings.
C14_NoEmptyBatchSent ==
    \A b \in 1..Len(sent_batches) : Len(sent_batches[b]) >= 1

InitSchema ==
    /\ IdleGridVars /\ IdleReadingVars /\ IdleWeatherVars
    /\ IdlePublisherVars /\ InitSchemaVars /\ IdleProducerVars

NextSchema == RunValidateSchema

SpecSchema == InitSchema /\ [][NextSchema]_vars

\* The types isinstance accepts for an expected type.
AcceptedTypes(expected) ==
    IF expected = "int" THEN {"int", "bool"} ELSE {expected}

\* The category the claim gives a field of the message, "ok" for a field in
\* order.
CategoryOf(msg, k) ==
    LET v == msg[RequiredFields[k].name]
    IN  IF v.type = "absent" THEN "Missing field"
        ELSE IF v.type = "NoneType" THEN "Null field"
        ELSE IF v.type \notin AcceptedTypes(RequiredFields[k].type)
            THEN "Invalid type"
        ELSE "ok"

BadFields(msg) == {k \in 1..Len(RequiredFields) : CategoryOf(msg, k) # "ok"}

\* C8: the schema phase reports one error for each of the 13 fields that is
\* missing, null or of the wrong type, categorized in that precedence, none
\* for any other field, in the declared order of the fields.
C8_SchemaErrorsComplete ==
    schema_result # NotRun /\ errors = NotRun =>
        /\ Len(RequiredFields) = 13
        /\ Len(schema_result) = Cardinality(BadFields(message))
        /\ \A n \in 1..Len(schema_result) :
              \E k \in BadFields(message) :
                  /\ Cardinality({x \in BadFields(message) : x <= k}) = n
                  /\ schema_result[n].field = RequiredFields[k].name
                  /\ schema_result[n].kind = CategoryOf(message, k)

\* A message whose first field is missing and whose last field has the wrong
\* type: both are reported, in that order.
C8_Witness ==
    /\ schema_result # NotRun
    /\ errors = NotRun
    /\ message.sensor_id = Absent
    /\ message.district = IntVal(5)
    /\ Len(schema_result) = 2
    /\ schema_result[2].field = "district"

InitValidator ==
    /\ IdleGridVars /\ IdleReadingVars /\ IdleWeatherVars
    /\ IdlePublisherVars /\ IdleValidatorVars /\ IdleProducerVars

NextValidator == Validate

SpecValidator == InitValidator /\ [][NextValidator]_vars

\* A message with every required field present, not null, of an accepted
\* type, within its range and among its allowed literals.
Clean(msg) ==
    /\ BadFields(msg) = {}
    /\ \A f \in DOMAIN ValueRanges :
          ValueRanges[f][1] <= msg[f].num /\ msg[f].num <= ValueRanges[f][2]
    /\ \A f \in DOMAIN ValidEnums : msg[f].text \in ValidEnums[f]

\* C9: total_messages = valid_messages + invalid_messages always; every
\* validated message adds one to total_messages and one to exactly one of
\* valid_messages and invalid_messages, to valid_messages iff the message
\* has no error in any phase.
C9_StatsAccounting ==
    /\ [](stats.total_messages = stats.valid_messages + stats.invalid_messages)
    /\ [][ /\ stats'.total_messages = stats.total_messages + 1
           /\ \/ /\ errors' = << >>
                 /\ Clean(message')
                 /\ stats'.valid_messages = stats.valid_messages + 1
                 /\ stats'.invalid_messages = stats.invalid_messages
              \/ /\ errors' # << >>
                 /\ ~Clean(message')
                 /\ stats'.valid_messages = stats.valid_messages
                 /\ stats'.invalid_messages = stats.invalid_messages + 1
         ]_vars

\* A valid message and an invalid one have been counted.
C9_Witness ==
    /\ stats.total_messages = 2
    /\ stats.valid_messages = 1
    /\ stats.invalid_messages = 1
    /\ errors # << >>

InitProducers ==
    /\ IdleGridVars /\ IdleReadingVars /\ IdleWeatherVars
    /\ IdlePublisherVars /\ IdleValidatorVars /\ InitProducerVars

NextProducers ==
    \E p \in Producers :
        \/ EnterTry(p)
        \/ InterruptBeforeTry(p)
        \/ Generate(p)
        \/ SendOneBatch(p)
        \/ SendFailure(p)
        \/ Sleep(p)
        \/ Interrupt(p)
        \/ ExceptClause(p)
        \/ FinallyClause(p)

SpecProducers == InitProducers /\ [][NextProducers]_vars

\* C10: a producer that has left its loop, by an interrupt during an
\* iteration or by a send failure, and has left the function has closed its
\* client; and once the client is closed no batch is sent.
C10_CloseOnEveryExit ==
    /\ [](\A p \in Producers :
            (prod_pc[p] = "exited"
                /\ exit_cause[p] \in {"KeyboardInterrupt", "SendError"})
            => closed[p])
    /\ [][\A p \in Producers :
            closed[p] => batches_sent'[p] = batches_sent[p]]_vars

\* The traffic producer has left by a send failure after a batch was sent,
\* the weather producer by an interrupt; both clients are closed.
C10_Witness ==
    /\ prod_pc["traffic"] = "exited"
    /\ exit_cause["traffic"] = "SendError"
    /\ batches_sent["traffic"] > 0
    /\ closed["traffic"]
    /\ prod_pc["weather"] = "exited"
    /\ exit_cause["weather"] = "KeyboardInterrupt"
    /\ closed["weather"]

InitEndToEnd ==
    /\ InitScenarioGridVars /\ IdleReadingVars /\ IdleWeatherVars
    /\ IdlePublisherVars /\ IdleValidatorVars /\ IdleProducerVars

NextEndToEnd ==
    \/ GenerateIntersections
    \/ SelectIntersection
    \/ GenerateReading
    \/ DeliverReading

SpecEndToEnd == InitEndToEnd /\ [][NextEndToEnd]_vars

\* Every required field of the message is present, not null and of the
\* declared type, and _validate_schema found nothing.
SchemaAccepts(msg) ==
    \A k \in 1..Len(RequiredFields) :
        /\ msg[RequiredFields[k].name] # Absent
        /\ msg[RequiredFields[k].name] # NoneVal
        /\ msg[RequiredFields[k].name].type = RequiredFields[k].type

\* Every range-bounded field of the message lies in its closed interval.
InValueRanges(msg) ==
    \A f \in DOMAIN ValueRanges :
        ValueRanges[f][1] <= msg[f].num /\ msg[f].num <= ValueRanges[f][2]

\* Every enumerated field of the message holds one of its literals.
InValidEnums(msg) ==
    \A f \in DOMAIN ValidEnums : msg[f].text \in ValidEnums[f]

\* The grid of size 2 around (0, 0) has 4 intersections, all downtown.
SmallGridAllDowntown ==
    (grid_built /\ grid_size = 2 /\ city_center = <<0, 0>>) =>
        /\ Len(intersections) = 4
        /\ \A k \in 1..Len(intersections) :
              intersections[k].district = "downtown"

\* The coordinates of the intersection are a latitude and a longitude.
CoordinatesOnTheGlobe(x) ==
    /\ ValueRanges.latitude[1] <= x.latitude
    /\ x.latitude <= ValueRanges.latitude[2]
    /\ ValueRanges.longitude[1] <= x.longitude
    /\ x.longitude <= ValueRanges.longitude[2]

\* C11 as stated: every reading generated for an intersection built by
\* CityGrid is, once serialized, accepted by the schema phase, within every
\* value range and within both enumerations; and the grid of size 2 around
\* (0, 0) has 4 intersections, all downtown.
C11_EveryReadingValid ==
    /\ message # NoMessage =>
          /\ schema_result = << >>
          /\ SchemaAccepts(message)
          /\ InValueRanges(message)
          /\ InValidEnums(message)
    /\ SmallGridAllDowntown

\* C11, amended: the same for every reading of an intersection whose
\* coordinates lie within [-90, 90] and [-180, 180]; the grid builder does
\* not keep the coordinates of a grid near a pole or the 180th meridian
\* within these intervals.
C11_ReadingValidOnTheGlobe ==
    /\ (message # NoMessage /\ CoordinatesOnTheGlobe(intersection)) =>
          /\ schema_result = << >>
          /\ SchemaAccepts(message)
          /\ InValueRanges(message)
          /\ InValidEnums(message)
    /\ SmallGridAllDowntown

\* A reading of the grid of size 2 around (0, 0) has reached the validator
\* with the occupancy at its cap, a whole float.
C11_Witness ==
    /\ message # NoMessage
    /\ grid_size = 2 /\ city_center = <<0, 0>>
    /\ Len(intersections) = 4
    /\ message.occupancy_rate = NumberVal("float", 1000000)
    /\ schema_result = << >>

InitMultiplier ==
    /\ IdleGridVars /\ InitMultiplierVars /\ IdleWeatherVars
    /\ IdlePublisherVars /\ IdleValidatorVars /\ IdleProducerVars

NextMultiplier == CallGetTrafficMultiplier

SpecMultiplier == InitMultiplier /\ [][NextMultiplier]_vars

\* C12: every hour of the day matches exactly one time-of-day band, and
\* get_traffic_multiplier returns that band's multiplier scaled by a factor
\* in [0.8, 1.2], never the default 1.0.
C12_BandsPartitionTheDay ==
    /\ \A h \in HoursOfDay : Cardinality(MatchingBands(h)) = 1
    /\ traffic_multiplier # << >> =>
          /\ traffic_multiplier[1] # 10000
          /\ \A b \in 1..Len(TimeOfDayPatterns) :
                (TimeOfDayPatterns[b].start_hour <= timestamp_hour
                 /\ timestamp_hour < TimeOfDayPatterns[b].end_hour) =>
                    /\ 800 * TimeOfDayPatterns[b].multiplier <= traffic_multiplier[1]
                    /\ traffic_multiplier[1] <= 1200 * TimeOfDayPatterns[b].multiplier

\* get_traffic_multiplier has returned for the last hour of the day, with
\* the top of the jitter on the evening band's 0.6.
C12_Witness ==
    /\ timestamp_hour = 23
    /\ traffic_multiplier = << 7200 >>

\* C3: for every grid size N > 0 the finished grid holds exactly N*N
\* intersections and no two of them share an intersection_id.
C3_UniqueIds ==
    GridDone =>
        /\ Len(intersections) = grid_size * grid_size
        /\ Cardinality({intersections[k].intersection_id :
                            k \in 1..Len(intersections)}) = Len(intersections)

\* The district of cell (i, j) by the distance from the grid's geometric
\* center (n/2, n/2), the point the coordinates are offset from: the
\* comparison is made on doubled coordinates, (2i-n)^2 + (2j-n)^2 < 4*k*k.
DistrictFromCenter(i, j, n) ==
    LET d2 == (2 * i - n) * (2 * i - n) + (2 * j - n) * (2 * j - n)
    IN  IF d2 < 36 THEN "downtown"
        ELSE IF d2 < 100 THEN "residential"
        ELSE IF d2 < 196 THEN "industrial"
        ELSE "suburban"

\* C4: the district of every built cell is the band of its Euclidean
\* distance from the grid's geometric center.
C4_DistrictByCenterDistance ==
    \A k \in 1..Len(intersections) :
        intersections[k].district =
            DistrictFromCenter(CellOf(k, grid_size)[1],
                               CellOf(k, grid_size)[2], grid_size)

====
